---------------------------- MODULE Spec2Model ----------------------------
(***************************************************************************)
(* Black-Scholes option pricer and heatmap sweep (src/black_scholes.py).   *)
(*                                                                         *)
(* The script is a Streamlit page: every user interaction re-runs the      *)
(* whole script top to bottom in a fresh namespace, reading the current    *)
(* widget values.  One run of the script is one "rendering pass".          *)
(*                                                                         *)
(* Numbers.  Python floats are modelled as fixed-point integers counting   *)
(* units of 1/Scale.  A float that may be non-finite (d1, d2, a            *)
(* probability, a price) is a record [k, v]: k = "fin" with the value v,   *)
(* or k \in {"pinf", "ninf", "nan"} with v = 0.  Every arithmetic          *)
(* operation rounds its result to the nearest unit, as a float operation   *)
(* rounds to the nearest representable value.                              *)
(***************************************************************************)
EXTENDS Integers, Sequences, FiniteSets, TLC

\* np.linspace(min, max, 10): the number of samples on each axis.
Steps == 10

\* Resolution of the fixed-point floats: units per 1.0.  A multiple of
\* Steps - 1 and of 100, so that inputs entered in hundredths and the
\* linspace step delta / (Steps - 1) are exact.
Scale == (Steps - 1) * 100

\* A value entered in hundredths (5 = 0.05), in units.
Hundredths(n) == n * (Scale \div 100)

---------------------------------------------------------------------------
\* Extended floats.

Fin(v) == [k |-> "fin", v |-> v]
PosInf == [k |-> "pinf", v |-> 0]
NegInf == [k |-> "ninf", v |-> 0]
NaN    == [k |-> "nan", v |-> 0]

IsFin(x) == x.k = "fin"

Abs(n) == IF n < 0 THEN -n ELSE n

\* a / b for integers, b # 0, rounded to the nearest integer (ties away
\* from zero), symmetric in sign as float division is.
RDiv(a, b) ==
    LET n == IF b < 0 THEN -a ELSE a
        d == Abs(b)
    IN  IF n >= 0 THEN (2 * n + d) \div (2 * d)
                  ELSE -((2 * (-n) + d) \div (2 * d))

\* x * y and x / y on finite floats.
FMul(x, y) == RDiv(x * y, Scale)
FDiv(x, y) == RDiv(x * Scale, y)

\* floor(sqrt(n)) for n >= 0, by Newton's iteration from above.
RECURSIVE ISqrtFrom(_, _)
ISqrtFrom(n, g) ==
    LET h == (g + n \div g) \div 2
    IN  IF h >= g THEN g ELSE ISqrtFrom(n, h)

ISqrt(n) == IF n = 0 THEN 0 ELSE ISqrtFrom(n, n)

\* np.sqrt(x): NaN for x < 0, else the square root rounded to the unit.
Sqrt(x) ==
    IF x < 0 THEN NaN
    ELSE LET n == x * Scale
             s == ISqrt(n)
         IN  Fin(IF n - s * s > s THEN s + 1 ELSE s)

\* ln 2, in units.
Ln2 == RDiv(693147 * Scale, 1000000)

\* ln(x) for x in [0.75, 1.5): 2 atanh((x - 1) / (x + 1)), by its series.
LnNear1(x) ==
    LET y  == FDiv(x - Scale, x + Scale)
        y2 == FMul(y, y)
        y3 == FMul(y, y2)
        y5 == FMul(y3, y2)
        y7 == FMul(y5, y2)
    IN  2 * y + RDiv(2 * y3, 3) + RDiv(2 * y5, 5) + RDiv(2 * y7, 7)

\* ln(x) for x > 0: halve or double x into [0.75, 1.5).
RECURSIVE LnPos(_)
LnPos(x) ==
    IF 2 * x >= 3 * Scale THEN LnPos(RDiv(x, 2)) + Ln2
    ELSE IF 4 * x < 3 * Scale THEN LnPos(2 * x) - Ln2
    ELSE LnNear1(x)

\* np.log(x) of an extended float: -inf at 0, NaN below 0 (numpy warns and
\* carries on; it does not raise).
Log(x) ==
    CASE x.k = "nan"  -> NaN
      [] x.k = "pinf" -> PosInf
      [] x.k = "ninf" -> NaN
      [] x.v = 0      -> NegInf
      [] x.v < 0      -> NaN
      [] OTHER        -> Fin(LnPos(x.v))

\* e^x for |x| <= 1/2, by its series.
ExpSmall(x) ==
    LET x2 == FMul(x, x)
        x3 == FMul(x2, x)
        x4 == FMul(x3, x)
        x5 == FMul(x4, x)
    IN  Scale + x + RDiv(x2, 2) + RDiv(x3, 6) + RDiv(x4, 24) + RDiv(x5, 120)

\* np.exp(x) for finite x: e^x = e^(x/2) * e^(x/2); below e^-10 the result
\* rounds to 0 units.
RECURSIVE Exp(_)
Exp(x) ==
    IF x < -10 * Scale THEN 0
    ELSE IF 2 * Abs(x) <= Scale THEN ExpSmall(x)
    ELSE LET h == x \div 2 IN FMul(Exp(h), Exp(x - h))

\* 1 / sqrt(2 pi), in units.
InvSqrt2Pi == RDiv(398942 * Scale, 1000000)

\* The standard normal density at z >= 0.
Pdf(z) == FMul(InvSqrt2Pi, Exp(-RDiv(z * z, 2 * Scale)))

\* z + k / (z + (k+1) / (z + ...)): the continued fraction of the normal
\* tail, cut after twelve levels.
RECURSIVE TailFrac(_, _)
TailFrac(z, k) ==
    IF k > 12 THEN z ELSE z + RDiv(k * Scale * Scale, TailFrac(z, k + 1))

\* 1 - Phi(z) for z >= 1 (0.5 erfc(z / sqrt 2)).
UpperTail(z) ==
    IF z > 10 * Scale THEN 0 ELSE FDiv(Pdf(z), TailFrac(z, 1))

\* Phi(z) - 1/2 for 0 <= z < 1 (0.5 erf(z / sqrt 2)), by its series.
HalfErf(z) ==
    LET z2 == FMul(z, z)
        z3 == FMul(z2, z)
        z5 == FMul(z3, z2)
        z7 == FMul(z5, z2)
        z9 == FMul(z7, z2)
    IN  FMul(InvSqrt2Pi,
             z - RDiv(z3, 6) + RDiv(z5, 40) - RDiv(z7, 336) + RDiv(z9, 3456))

\* norm.cdf on a finite float: the erf branch near 0, the erfc branch in the
\* tails, and 1 - tail on the positive side.
CdfFin(x) ==
    LET z == Abs(x)
    IN  IF z < Scale
        THEN (Scale \div 2) + (IF x < 0 THEN -HalfErf(z) ELSE HalfErf(z))
        ELSE IF x > 0 THEN Scale - UpperTail(z) ELSE UpperTail(z)

\* norm.cdf(x): 1 at +inf, 0 at -inf, NaN at NaN.
Cdf(x) ==
    CASE x.k = "nan"  -> NaN
      [] x.k = "pinf" -> Fin(Scale)
      [] x.k = "ninf" -> Fin(0)
      [] OTHER        -> Fin(CdfFin(x.v))

\* Float arithmetic on extended floats (IEEE rules for inf and NaN; numpy
\* warns on a division by zero and returns inf or NaN, it does not raise).
XNeg(x) ==
    CASE x.k = "pinf" -> NegInf
      [] x.k = "ninf" -> PosInf
      [] x.k = "nan"  -> NaN
      [] OTHER        -> Fin(-x.v)

XAdd(x, y) ==
    CASE x.k = "nan" \/ y.k = "nan" -> NaN
      [] x.k = "fin" /\ y.k = "fin" -> Fin(x.v + y.v)
      [] x.k = "fin"                -> y
      [] y.k = "fin"                -> x
      [] x.k = y.k                  -> x
      [] OTHER                      -> NaN

XSub(x, y) == XAdd(x, XNeg(y))

\* The sign of an extended float other than NaN: -1, 0 or 1.
Sign(x) ==
    CASE x.k = "pinf" -> 1
      [] x.k = "ninf" -> -1
      [] x.v > 0      -> 1
      [] x.v < 0      -> -1
      [] OTHER        -> 0

XMul(x, y) ==
    CASE x.k = "nan" \/ y.k = "nan" -> NaN
      [] x.k = "fin" /\ y.k = "fin" -> Fin(FMul(x.v, y.v))
      [] Sign(x) * Sign(y) > 0      -> PosInf
      [] Sign(x) * Sign(y) < 0      -> NegInf
      [] OTHER                      -> NaN

XDiv(x, y) ==
    CASE x.k = "nan" \/ y.k = "nan"   -> NaN
      [] x.k # "fin" /\ y.k # "fin"   -> NaN
      [] y.k # "fin"                  -> Fin(0)
      [] y.v = 0 /\ Sign(x) = 0       -> NaN
      [] y.v = 0 /\ Sign(x) > 0       -> PosInf
      [] y.v = 0                      -> NegInf
      [] x.k # "fin" /\ Sign(x) * Sign(y) > 0 -> PosInf
      [] x.k # "fin"                  -> NegInf
      [] OTHER                        -> Fin(FDiv(x.v, y.v))

XSqrt(x) ==
    CASE x.k = "pinf" -> PosInf
      [] x.k = "fin"  -> Sqrt(x.v)
      [] OTHER        -> NaN

XExp(x) ==
    CASE x.k = "pinf" -> PosInf
      [] x.k = "ninf" -> Fin(0)
      [] x.k = "nan"  -> NaN
      [] OTHER        -> Fin(Exp(x.v))

Half == Fin(Scale \div 2)

---------------------------------------------------------------------------
\* The pricer.

\* How a call of black_scholes ends.
Returned(v)  == [out |-> "return", val |-> v]
ReturnedNone == [out |-> "none"]
Raised(e)    == [out |-> "raise", err |-> e]

OptionTypes == {"call", "put"}

\* K * np.exp(-r * T)
Discounted(K_, T_, r_) == XMul(K_, XExp(XNeg(XMul(r_, T_))))

\* The price from d1 and d2 with the put branch's sign of d2 lost.
PriceFromPutSign(S_, K_, T_, r_, d1, d2, option_type) ==
    CASE option_type = "call" ->
           Returned(XSub(XMul(S_, Cdf(d1)),
                         XMul(Discounted(K_, T_, r_), Cdf(d2))))
      [] option_type = "put" ->
           Returned(XSub(XMul(Discounted(K_, T_, r_), Cdf(d2)),
                         XMul(S_, Cdf(XNeg(d1)))))
      [] OTHER -> ReturnedNone

\* Lines 11-14: the price from d1 and d2.  An option_type that matches
\* neither branch falls off the end of the function, which returns None.
PriceFrom(S_, K_, T_, r_, d1, d2, option_type) ==
    CASE option_type = "call" ->
           Returned(XSub(XMul(S_, Cdf(d1)),
                         XMul(Discounted(K_, T_, r_), Cdf(d2))))
      [] option_type = "put" ->
           Returned(XSub(XMul(Discounted(K_, T_, r_), Cdf(XNeg(d2))),
                         XMul(S_, Cdf(XNeg(d1)))))
      [] OTHER -> ReturnedNone

\* Line 9: d1 (K # 0).
D1(S_, K_, T_, r_, sigma_) ==
    XDiv(XAdd(Log(XDiv(S_, K_)),
              XMul(XAdd(r_, XMul(Half, XMul(sigma_, sigma_))), T_)),
         XMul(sigma_, XSqrt(T_)))

\* Line 10: d2 from d1.
D2(d1, T_, sigma_) == XSub(d1, XMul(sigma_, XSqrt(T_)))

\* black_scholes(S, K, T, r, sigma, option_type).  S / K is Python float
\* division in the scalar calls and raises ZeroDivisionError for K = 0 (the
\* sweep, where S is a numpy float, is only reached with K # 0).
black_scholes(S_, K_, T_, r_, sigma_, option_type) ==
    IF K_.v = 0 THEN Raised("ZeroDivisionError")
    ELSE LET d1 == D1(S_, K_, T_, r_, sigma_)
             d2 == D2(d1, T_, sigma_)
         IN  PriceFrom(S_, K_, T_, r_, d1, d2, option_type)

\* One invocation of black_scholes, as the model records it: its
\* arguments and how it ended.
Invocation(S_, K_, T_, r_, sigma_, option_type) ==
    [S |-> S_, K |-> K_, T |-> T_, r |-> r_, sigma |-> sigma_,
     option_type |-> option_type,
     ret |-> black_scholes(S_, K_, T_, r_, sigma_, option_type)]

---------------------------------------------------------------------------
\* Library calls of the script.

\* A script name that is not bound yet.
Unbound == [k |-> "unbound", v |-> 0]

\* f"{x:.2f}" and np.round(x, 2): x to two decimals, in hundredths; inf and
\* NaN stay what they are.
Round2(x) == IF IsFin(x) THEN Fin(RDiv(x.v * 100, Scale)) ELSE x

\* np.linspace with endpoint = False: start + n * delta / num.
linspace_no_endpoint(start, stop, num) ==
    [n \in 0 .. num - 1 |-> Fin(n * RDiv(stop.v - start.v, num) + start.v)]

\* np.linspace(start, stop, num): step = delta / (num - 1), sample n is
\* n * step + start, and the last sample is set to stop itself.
linspace(start, stop, num) ==
    [n \in 0 .. num - 1 |->
        IF n = num - 1 THEN stop
        ELSE Fin(n * RDiv(stop.v - start.v, num - 1) + start.v)]

\* np.zeros((rows, cols))
zeros(rows, cols) == [a \in 0 .. rows - 1 |-> [b \in 0 .. cols - 1 |-> Fin(0)]]

\* len(array)
len(array) == Cardinality(DOMAIN array)

Min(a, b) == IF a <= b THEN a ELSE b
Max(a, b) == IF a >= b THEN a ELSE b

\* The range st.slider(min_value, max_value, value) offers: Streamlit widens
\* the bounds so that they contain the default value.
slider_range(min_value, max_value, value) ==
    [lo |-> Min(min_value, value), hi |-> Max(max_value, value)]

---------------------------------------------------------------------------
\* Inputs.

\* The spot bounds offered to the model: 50, 150, ... up to
\* 50 + 100 * MaxSpotLevel.
MaxSpotLevel == 1

WidgetNames == {"S", "K", "T", "sigma", "r", "min_spot", "max_spot",
                "min_volatility", "max_volatility"}

\* value = ... of each widget (lines 94-98, 118-121).
Defaults ==
    [S |-> Hundredths(10000), K |-> Hundredths(10000), T |-> Hundredths(100),
     sigma |-> Hundredths(20), r |-> Hundredths(5),
     min_spot |-> Hundredths(5000), max_spot |-> Hundredths(15000),
     min_volatility |-> Hundredths(10), max_volatility |-> Hundredths(50)]

SpotChoices == {Hundredths(5000 + 10000 * n) : n \in 0 .. MaxSpotLevel}

\* The values the user enters in each widget here.  The number inputs take
\* any number, zero included; the two sliders take values of [0, 1].  The
\* sweep supplies the variety of spots and volatilities.
Choices ==
    [S |-> {Hundredths(10000)},
     K |-> {0, Hundredths(10000)},
     T |-> {0, Hundredths(100)},
     sigma |-> {0, Hundredths(20)},
     r |-> {Hundredths(-5), Hundredths(5)},
     min_spot |-> SpotChoices,
     max_spot |-> SpotChoices,
     min_volatility |-> {0, Hundredths(10), Hundredths(60)},
     max_volatility |-> {Hundredths(10), Hundredths(50), Hundredths(60)}]

---------------------------------------------------------------------------
\* State.

VARIABLES
    widgets,          \* the value each widget holds (Streamlit's session)
    pc,               \* where the script is in its run
    S, K, T, sigma, r,
    call_price, put_price,
    displayed,        \* the two prices as written into the page
    min_spot, max_spot, min_volatility, max_volatility,
    spots, volatilities, call_prices, put_prices,
    i, j,             \* the loop indices; -1 before the loop binds them
    fig,              \* the tick labels given to the two heatmaps
    written,          \* the grid cells the loop has assigned, as <<i, j>>
    ncalls,           \* how many times this run has invoked black_scholes
    calls             \* the invocations made by the latest step, in order

vars == <<widgets, pc, S, K, T, sigma, r, call_price, put_price, displayed,
          min_spot, max_spot, min_volatility, max_volatility,
          spots, volatilities, call_prices, put_prices, i, j, fig,
          written, ncalls, calls>>

\* st.number_input(label) and st.slider(label) return the widget's value as
\* a float.
number_input(name) == Fin(widgets[name])
slider(name) == Fin(widgets[name])

\* The range the Max Volatility slider offers, given the Min Volatility
\* value m: st.slider(min_value = m, max_value = 1.0, value = 0.5).
MaxVolatilityRange(m) == slider_range(m, Scale, Defaults.max_volatility)

\* The script starts in a fresh namespace: no name is bound, nothing is
\* left of an earlier run.
FreshRun ==
    /\ pc = "inputs"
    /\ S = Unbound /\ K = Unbound /\ T = Unbound
    /\ sigma = Unbound /\ r = Unbound
    /\ call_price = Unbound /\ put_price = Unbound
    /\ displayed = Unbound
    /\ min_spot = Unbound /\ max_spot = Unbound
    /\ min_volatility = Unbound /\ max_volatility = Unbound
    /\ spots = Unbound /\ volatilities = Unbound
    /\ call_prices = Unbound /\ put_prices = Unbound
    /\ i = -1 /\ j = -1
    /\ fig = Unbound
    /\ written = {}
    /\ ncalls = 0
    /\ calls = <<>>

\* The page is opened: every widget holds its default.
Init == widgets = Defaults /\ FreshRun

\* Lines 94-98.
ReadInputs ==
    /\ pc = "inputs"
    /\ S' = number_input("S")
    /\ K' = number_input("K")
    /\ T' = number_input("T")
    /\ sigma' = number_input("sigma")
    /\ r' = number_input("r")
    /\ pc' = "price"
    /\ UNCHANGED <<widgets, call_price, put_price, displayed, min_spot,
                   max_spot, min_volatility, max_volatility, spots,
                   volatilities, call_prices, put_prices, i, j, fig, written, ncalls>>
    /\ calls' = <<>>

\* Lines 101-102.  An exception in either call ends the run: Streamlit shows
\* the traceback in place of the rest of the page.
ScalarPrices ==
    /\ pc = "price"
    /\ LET c == Invocation(S, K, T, r, sigma, "call")
           p == Invocation(S, K, T, r, sigma, "put")
       IN  IF c.ret.out = "raise"
           THEN /\ calls' = <<c>>
                /\ ncalls' = ncalls + 1
                /\ pc' = "error"
                /\ UNCHANGED <<call_price, put_price>>
           ELSE IF p.ret.out = "raise"
           THEN /\ calls' = <<c, p>>
                /\ ncalls' = ncalls + 2
                /\ call_price' = c.ret.val
                /\ pc' = "error"
                /\ UNCHANGED put_price
           ELSE /\ calls' = <<c, p>>
                /\ ncalls' = ncalls + 2
                /\ call_price' = c.ret.val
                /\ put_price' = p.ret.val
                /\ pc' = "display"
    /\ UNCHANGED <<widgets, S, K, T, sigma, r, displayed, min_spot, max_spot,
                   min_volatility, max_volatility, spots, volatilities,
                   call_prices, put_prices, i, j, fig, written>>

\* Lines 105-114.
Display ==
    /\ pc = "display"
    /\ displayed' = [call |-> Round2(call_price), put |-> Round2(put_price)]
    /\ pc' = "heatmap_inputs"
    /\ UNCHANGED <<widgets, S, K, T, sigma, r, call_price, put_price,
                   min_spot, max_spot, min_volatility, max_volatility, spots,
                   volatilities, call_prices, put_prices, i, j, fig, written, ncalls>>
    /\ calls' = <<>>

\* Lines 118-121.
HeatmapInputs ==
    /\ pc = "heatmap_inputs"
    /\ min_spot' = number_input("min_spot")
    /\ max_spot' = number_input("max_spot")
    /\ min_volatility' = slider("min_volatility")
    /\ max_volatility' = slider("max_volatility")
    /\ pc' = "linspace"
    /\ UNCHANGED <<widgets, S, K, T, sigma, r, call_price, put_price,
                   displayed, spots, volatilities, call_prices, put_prices,
                   i, j, fig, written, ncalls>>
    /\ calls' = <<>>

\* Lines 124-127.
Linspace ==
    /\ pc = "linspace"
    /\ spots' = linspace(min_spot, max_spot, Steps)
    /\ volatilities' = linspace(min_volatility, max_volatility, Steps)
    /\ call_prices' = zeros(len(volatilities'), len(spots'))
    /\ put_prices' = zeros(len(volatilities'), len(spots'))
    /\ pc' = "sweep"
    /\ UNCHANGED <<widgets, S, K, T, sigma, r, call_price, put_price,
                   displayed, min_spot, max_spot, min_volatility,
                   max_volatility, i, j, fig, written, ncalls>>
    /\ calls' = <<>>

\* An enumeration that yields the first element at every position.
enumerate_first(array, n) == array[0]

\* enumerate(array) at position n yields (n, array[n]): the element.
enumerate(array, n) == array[n]

\* The cell the nested loops visit after (i, j): the inner loop runs over
\* the columns, the outer over the rows.
NextCell(i_, j_, cols) ==
    IF i_ = -1 THEN <<0, 0>>
    ELSE IF j_ < cols - 1 THEN <<i_, j_ + 1>> ELSE <<i_ + 1, 0>>

\* The assignment with the indices exchanged: grid[j, i] = v
store_transposed(grid, a, b, v) == [grid EXCEPT ![b][a] = v]

\* grid[i, j] = v
store(grid, a, b, v) == [grid EXCEPT ![a][b] = v]

\* The loop body's calls with T passed for K and K for T.
SweepCallsSwapped(S_, sigma_) ==
    <<Invocation(S_, T, K, r, sigma_, "call"),
      Invocation(S_, T, K, r, sigma_, "put")>>

\* The two calls of the loop body (lines 131-132).
SweepCalls(S_, sigma_) ==
    <<Invocation(S_, K, T, r, sigma_, "call"),
      Invocation(S_, K, T, r, sigma_, "put")>>

\* Lines 129-132: one iteration of the inner loop.  The loops bind the
\* script's own names sigma and S.
SweepStep ==
    /\ pc = "sweep"
    /\ LET cell == NextCell(i, j, len(spots))
           sg   == enumerate(volatilities, cell[1])
           sp   == enumerate(spots, cell[2])
           cs   == SweepCalls(sp, sg)
       IN  /\ i' = cell[1]
           /\ sigma' = sg
           /\ j' = cell[2]
           /\ S' = sp
           /\ call_prices' = store(call_prices, cell[1], cell[2], cs[1].ret.val)
           /\ put_prices' = store(put_prices, cell[1], cell[2], cs[2].ret.val)
           /\ written' = written \cup {cell}
           /\ calls' = cs
           /\ ncalls' = ncalls + Len(cs)
           /\ pc' = IF cell = <<len(volatilities) - 1, len(spots) - 1>>
                    THEN "plot" ELSE "sweep"
    /\ UNCHANGED <<widgets, K, T, r, call_price, put_price, displayed,
                   min_spot, max_spot, min_volatility, max_volatility, spots,
                   volatilities, fig>>

\* Lines 135-147: both heatmaps get the rounded samples as tick labels.
Plot ==
    /\ pc = "plot"
    /\ fig' = [xticklabels |-> [n \in DOMAIN spots |-> Round2(spots[n])],
               yticklabels |->
                   [n \in DOMAIN volatilities |-> Round2(volatilities[n])]]
    /\ pc' = "done"
    /\ UNCHANGED <<widgets, S, K, T, sigma, r, call_price, put_price,
                   displayed, min_spot, max_spot, min_volatility,
                   max_volatility, spots, volatilities, call_prices,
                   put_prices, i, j, written, ncalls>>
    /\ calls' = <<>>

\* The widgets after the user sets widget name to v.  The Max Volatility
\* slider is a new widget, at its default, when its range changes.
Changed(name, v) ==
    IF /\ name = "min_volatility"
       /\ MaxVolatilityRange(v) # MaxVolatilityRange(widgets.min_volatility)
    THEN [widgets EXCEPT !.min_volatility = v,
                         !.max_volatility = Defaults.max_volatility]
    ELSE [widgets EXCEPT ![name] = v]

\* The user changes one widget, which runs the script again from the top.
\* The Max Volatility slider only offers the values of its range.
Rerun ==
    /\ pc \in {"done", "error"}
    /\ \E name \in WidgetNames :
         \E v \in Choices[name] :
            /\ v # widgets[name]
            /\ name = "max_volatility" =>
                   /\ MaxVolatilityRange(widgets.min_volatility).lo <= v
                   /\ v <= MaxVolatilityRange(widgets.min_volatility).hi
            /\ widgets' = Changed(name, v)
    /\ pc' = "inputs"
    /\ S' = Unbound /\ K' = Unbound /\ T' = Unbound
    /\ sigma' = Unbound /\ r' = Unbound
    /\ call_price' = Unbound /\ put_price' = Unbound
    /\ displayed' = Unbound
    /\ min_spot' = Unbound /\ max_spot' = Unbound
    /\ min_volatility' = Unbound /\ max_volatility' = Unbound
    /\ spots' = Unbound /\ volatilities' = Unbound
    /\ call_prices' = Unbound /\ put_prices' = Unbound
    /\ i' = -1 /\ j' = -1
    /\ fig' = Unbound
    /\ written' = {}
    /\ ncalls' = 0
    /\ calls' = <<>>

Next ==
    \/ ReadInputs
    \/ ScalarPrices
    \/ Display
    \/ HeatmapInputs
    \/ Linspace
    \/ SweepStep
    \/ Plot
    \/ Rerun

Spec == Init /\ [][Next]_vars

---------------------------------------------------------------------------
\* The pricer on its own: black_scholes applied once to arguments drawn
\* from the model's inputs, with any option_type a caller may pass.

PricerKinds == OptionTypes \cup {"straddle"}

InitPricer ==
    /\ widgets = Defaults
    /\ pc = "pricer"
    /\ S \in {Fin(x) : x \in Choices.S \cup SpotChoices}
    /\ K \in {Fin(x) : x \in Choices.K}
    /\ T \in {Fin(x) : x \in Choices.T}
    /\ sigma \in {Fin(x) : x \in Choices.sigma}
    /\ r \in {Fin(x) : x \in Choices.r}
    /\ call_price = Unbound /\ put_price = Unbound
    /\ displayed = Unbound
    /\ min_spot = Unbound /\ max_spot = Unbound
    /\ min_volatility = Unbound /\ max_volatility = Unbound
    /\ spots = Unbound /\ volatilities = Unbound
    /\ call_prices = Unbound /\ put_prices = Unbound
    /\ i = -1 /\ j = -1
    /\ fig = Unbound
    /\ written = {}
    /\ ncalls = 0
    /\ calls = <<>>

PricerCall ==
    /\ pc = "pricer"
    /\ \E option_type \in PricerKinds :
          calls' = <<Invocation(S, K, T, r, sigma, option_type)>>
    /\ ncalls' = ncalls + 1
    /\ pc' = "returned"
    /\ UNCHANGED <<widgets, S, K, T, sigma, r, call_price, put_price,
                   displayed, min_spot, max_spot, min_volatility,
                   max_volatility, spots, volatilities, call_prices,
                   put_prices, i, j, fig, written>>

NextPricer == PricerCall

SpecPricer == InitPricer /\ [][NextPricer]_vars

---------------------------------------------------------------------------
\* Properties.

Cells == (0 .. Steps - 1) \X (0 .. Steps - 1)

\* The run has left the sweep loop.
Swept == pc \in {"plot", "done"}

\* The value a call of black_scholes returns.
PriceOf(S_, K_, T_, r_, sigma_, option_type) ==
    black_scholes(S_, K_, T_, r_, sigma_, option_type).val

\* C1: a call of black_scholes whose option_type is neither 'call' nor
\* 'put' ends in an explicit failure; it never completes with a returned
\* value, numeric or empty.
C1_InvalidKindFails ==
    \A n \in 1 .. Len(calls) :
        calls[n].option_type \notin OptionTypes => calls[n].ret.out = "raise"

\* C2: after the sweep both grids are Steps x Steps, every cell [i][j]
\* holds black_scholes(spots[j], K, T, r, volatilities[i], kind) for its
\* grid's kind, cell [0][0] is priced at (min_spot, min_volatility) and
\* cell [9][9] at (max_spot, max_volatility), and every cell has been
\* assigned (none keeps the placeholder of np.zeros).
C2_GridHoldsPrices ==
    Swept =>
        /\ DOMAIN call_prices = 0 .. Steps - 1
        /\ DOMAIN put_prices = 0 .. Steps - 1
        /\ \A a \in 0 .. Steps - 1 :
              /\ DOMAIN call_prices[a] = 0 .. Steps - 1
              /\ DOMAIN put_prices[a] = 0 .. Steps - 1
        /\ \A c \in Cells :
              /\ call_prices[c[1]][c[2]] =
                    PriceOf(spots[c[2]], K, T, r, volatilities[c[1]], "call")
              /\ put_prices[c[1]][c[2]] =
                    PriceOf(spots[c[2]], K, T, r, volatilities[c[1]], "put")
        /\ call_prices[0][0] =
              PriceOf(min_spot, K, T, r, min_volatility, "call")
        /\ put_prices[0][0] =
              PriceOf(min_spot, K, T, r, min_volatility, "put")
        /\ call_prices[Steps - 1][Steps - 1] =
              PriceOf(max_spot, K, T, r, max_volatility, "call")
        /\ put_prices[Steps - 1][Steps - 1] =
              PriceOf(max_spot, K, T, r, max_volatility, "put")
        /\ written = Cells

\* A swept grid whose corner cells differ from each other and from the
\* placeholder: the cells are real prices of different samples.
C2_Witness ==
    /\ pc = "done"
    /\ IsFin(call_prices[0][0]) /\ IsFin(call_prices[Steps - 1][Steps - 1])
    /\ call_prices[Steps - 1][Steps - 1].v > call_prices[0][Steps - 1].v
    /\ call_prices[0][Steps - 1].v > call_prices[0][0].v
    /\ put_prices[0][0].v > put_prices[0][Steps - 1].v
    /\ put_prices[Steps - 1][Steps - 1].v > put_prices[0][Steps - 1].v

\* The inputs for which the pricer is defined.
Valid(S_, K_, T_, sigma_) == S_.v > 0 /\ K_.v > 0 /\ T_.v > 0 /\ sigma_.v > 0

\* call - put = S - K exp(-r T), to within one unit of the arithmetic: the
\* rounding of the four products the two prices are made of.
Parity(c, p, S_, K_, T_, r_) ==
    /\ IsFin(c) /\ IsFin(p)
    /\ Abs((c.v - p.v) - (S_.v - Discounted(K_, T_, r_).v)) <= 1

C4_AxesAscending ==
    /\ Swept =>
          \A n \in 0 .. Steps - 2 :
              /\ volatilities[n].v <= volatilities[n + 1].v
              /\ spots[n].v <= spots[n + 1].v
    /\ pc = "done" =>
          /\ fig.xticklabels = [n \in 0 .. Steps - 1 |-> Round2(spots[n])]
          /\ fig.yticklabels =
                [n \in 0 .. Steps - 1 |-> Round2(volatilities[n])]

\* C5: every invocation of black_scholes in a run, scalar or sweep, has
\* S > 0, K > 0, T > 0 and sigma > 0: a degenerate input is rejected before
\* it reaches the division by sigma * sqrt(T).
C5_PreconditionsHold ==
    \A n \in 1 .. Len(calls) :
        Valid(calls[n].S, calls[n].K, calls[n].T, calls[n].sigma)

\* Ten samples start to stop, evenly spaced, both ends included.
EvenlySpaced(array, start, stop) ==
    /\ DOMAIN array = 0 .. Steps - 1
    /\ array[0] = start
    /\ array[Steps - 1] = stop
    /\ \A n \in 0 .. Steps - 2 :
          (Steps - 1) * (array[n + 1].v - array[n].v) = stop.v - start.v
    /\ start = stop => \A n \in 0 .. Steps - 1 : array[n] = start

\* C6: the sweep samples each range at exactly ten evenly spaced points
\* including both ends: spots[0] = min_spot, spots[9] = max_spot, the
\* spacing is (max_spot - min_spot) / 9, likewise for the volatilities, and
\* a range with min = max gives ten equal samples.
C6_LinspaceEven ==
    pc \in {"sweep", "plot", "done"} =>
        /\ EvenlySpaced(spots, Fin(widgets.min_spot), Fin(widgets.max_spot))
        /\ EvenlySpaced(volatilities, Fin(widgets.min_volatility),
                        Fin(widgets.max_volatility))

\* Both kinds of range in one run: a spot range with distinct ends and a
\* volatility range of a single value.
C6_Witness ==
    /\ pc = "sweep"
    /\ min_spot.v < max_spot.v
    /\ spots[1].v > spots[0].v
    /\ min_volatility = max_volatility
    /\ volatilities[Steps - 2] = min_volatility

\* The calls of the loop iteration at cell (a, b): 'call' then 'put', both
\* at (spots[b], volatilities[a]).
IterationCalls(a, b) ==
    /\ Len(calls) = 2
    /\ calls[1].option_type = "call" /\ calls[2].option_type = "put"
    /\ \A n \in 1 .. 2 :
          calls[n].S = spots[b] /\ calls[n].sigma = volatilities[a]

\* C7: a run makes exactly 2 scalar calls and then exactly 2 * Steps^2
\* sweep calls, one 'call' and one 'put' per (volatility, spot) pair, each
\* pair once, row by row with the volatility as the outer loop; and it
\* starts with nothing kept from the run before.
C7_CallsPerRun ==
    /\ pc = "inputs" => FreshRun
    /\ pc \in {"display", "heatmap_inputs", "linspace"} => ncalls = 2
    /\ (pc \in {"sweep", "plot"} /\ i >= 0) =>
           /\ IterationCalls(i, j)
           /\ ncalls = 2 + 2 * (i * Steps + j + 1)
           /\ written = {c \in Cells : c[1] * Steps + c[2] <= i * Steps + j}
    /\ pc \in {"done", "error"} => ncalls = 2 + 2 * Steps * Steps

\* C8: K, T and r are held constant across the sweep: every call of a run
\* gets the K, T and r the user entered, the same for the scalar calls and
\* the sweep calls, and K, T and r keep those values from the moment they
\* are read to the end of the run.
C8_KTrConstant ==
    pc \notin {"inputs", "pricer", "returned"} =>
        /\ K = Fin(widgets.K) /\ T = Fin(widgets.T) /\ r = Fin(widgets.r)
        /\ \A n \in 1 .. Len(calls) :
              /\ calls[n].K = Fin(widgets.K)
              /\ calls[n].T = Fin(widgets.T)
              /\ calls[n].r = Fin(widgets.r)

\* A sweep iteration past the first row has just made its two calls, with
\* a spot and a volatility other than the user's own.
C8_Witness ==
    /\ pc = "sweep"
    /\ i > 0
    /\ Len(calls) = 2
    /\ calls[1].S # Fin(widgets.S)
    /\ calls[1].sigma # Fin(widgets.sigma)
    /\ calls[1].K # calls[1].T

\* C9: in a run that reaches the sweep,
\* 0 <= min_volatility <= max_volatility <= 1, for every Min Volatility
\* setting of [0, 1], those above the Max Volatility default included.
C9_VolatilityRangeOrdered ==
    pc \in {"sweep", "plot", "done"} =>
        /\ 0 <= min_volatility.v
        /\ min_volatility.v <= max_volatility.v
        /\ max_volatility.v <= Scale

\* The two prices the page shows for the values the user entered.
PricesOfWidgets ==
    [call |-> Round2(PriceOf(Fin(widgets.S), Fin(widgets.K), Fin(widgets.T),
                             Fin(widgets.r), Fin(widgets.sigma), "call")),
     put  |-> Round2(PriceOf(Fin(widgets.S), Fin(widgets.K), Fin(widgets.T),
                             Fin(widgets.r), Fin(widgets.sigma), "put"))]

\* C10: the loop rebinds the script's names S and sigma, so after the
\* sweep S = spots[9] and sigma = volatilities[9]; the two displayed prices
\* were computed before that, and are those of the S, K, T, r and sigma
\* the user entered, whatever the four range fields hold.
C10_LoopRebindsAfterDisplay ==
    /\ Swept => S = spots[Steps - 1] /\ sigma = volatilities[Steps - 1]
    /\ pc \in {"heatmap_inputs", "linspace", "sweep", "plot", "done"} =>
           displayed = PricesOfWidgets

\* The sweep is over, S and sigma hold neither value the user entered, and
\* the page shows two positive prices.
C10_Witness ==
    /\ pc = "done"
    /\ S # Fin(widgets.S)
    /\ sigma # Fin(widgets.sigma)
    /\ IsFin(displayed.call) /\ displayed.call.v > 0
    /\ IsFin(displayed.put) /\ displayed.put.v > 0

===========================================================================
